---- MODULE Spec2Model ----
(***************************************************************************)
(* RepairMate (fixit_app.py): a Streamlit script that keeps a chat         *)
(* session in st.session_state, ingests an uploaded image or video, and    *)
(* forwards user text (plus media on one turn) to a remote chat model.     *)
(*                                                                         *)
(* One step of the model is one execution of the script, triggered by a   *)
(* widget interaction or by st.rerun().  Strings the code inspects are     *)
(* tuples of one-character strings; strings the code only concatenates    *)
(* are tuples of pieces.                                                   *)
(***************************************************************************)
EXTENDS Integers, Sequences, FiniteSets, TLC

\* ------------------------------------------------------------------ bounds
MaxSends == 2      \* accepted sends per session (chat_history <= 2*MaxSends)
MaxChats == 2      \* remote conversations created over the whole run
MaxPolls == 1      \* genai.get_file polls of one video ingestion

\* --------------------------------------------------------------- constants
MaxFileSize == 200
BytesPerMB == 1024 * 1024

None == "None"
NoMedia == [kind |-> None, file |-> 0]
NoAssistant == [exists |-> FALSE, api_configured |-> FALSE, chat |-> 0]

MARK == "X!"   \* the leading cross-mark character of every error string

\* --------------------------------------------------------- string helpers
IsPrefix(p, s) == Len(p) <= Len(s) /\ SubSeq(s, 1, Len(p)) = p

Contains(s, sub) ==
    \E i \in 1..(Len(s) - Len(sub) + 1) : SubSeq(s, i, i + Len(sub) - 1) = sub

LowerChar(c) ==
    CASE c = "R" -> "r" [] c = "O" -> "o" [] c = "L" -> "l" [] c = "E" -> "e"
      [] c = "B" -> "b" [] OTHER -> c

Lower(s) == [i \in 1..Len(s) |-> LowerChar(s[i])]

S400 == <<"4", "0", "0">>
SRole == <<"r", "o", "l", "e">>
ImagePrefix == <<"i", "m", "a", "g", "e", "/">>
VideoPrefix == <<"v", "i", "d", "e", "o", "/">>

\* ------------------------------------------------------------ environment
\* Files the uploader widget can hold: declared MIME type, size in bytes,
\* and whether PIL can open the bytes.
FILES == <<
    [type |-> <<"i","m","a","g","e","/","p","n","g">>, size |-> 5 * BytesPerMB, decodable |-> TRUE],
    [type |-> <<"i","m","a","g","e","/","j","p","g">>, size |-> MaxFileSize * BytesPerMB, decodable |-> TRUE],
    [type |-> <<"i","m","a","g","e","/","g","i","f">>, size |-> 5 * BytesPerMB, decodable |-> FALSE],
    [type |-> <<"v","i","d","e","o","/","m","p","4">>, size |-> 5 * BytesPerMB, decodable |-> FALSE],
    [type |-> <<"v","i","d","e","o","/","m","p","4">>, size |-> 250 * BytesPerMB, decodable |-> FALSE],
    [type |-> <<"i","m","a","g","e","/","p","n","g">>, size |-> MaxFileSize * BytesPerMB + 1, decodable |-> TRUE],
    [type |-> <<"a","p","p","/","b","i","n">>, size |-> 5 * BytesPerMB, decodable |-> FALSE] >>

FileIds == 1..Len(FILES)

\* Texts of the input area ("" is the empty tuple) and the canned examples.
example_issues == { <<"My phone screen is cracked">> }
Texts == example_issues

\* Replies and error texts of the remote model.
Replies == { <<"reply">> }
Err400 == <<"4", "0", "0", " ", "b", "a", "d">>
ErrROLE == <<"B", "a", "d", " ", "R", "O", "L", "E">>
Err500 == <<"5", "0", "0">>
ErrorTexts == { Err400, ErrROLE, Err500 }

SendOutcomes == [ok : {TRUE}, val : Replies] \cup [ok : {FALSE}, val : ErrorTexts]

\* Remote answers to one send_message call: c1/c2 say whether the lazy / the
\* recovery start_chat succeeds, o1/o2 are the outcomes of the first / the
\* retried remote send.  Answers to calls that are never made are fixed.
SendEnvs ==
    { e \in [c1 : BOOLEAN, c2 : BOOLEAN, o1 : SendOutcomes, o2 : SendOutcomes] :
        /\ (~e.c1 => e.o1 = [ok |-> TRUE, val |-> <<"reply">>])
        /\ (e.o1.ok \/ ~e.c2 => e.o2 = [ok |-> TRUE, val |-> <<"reply">>])
        /\ (e.o1.ok => e.c2) }

\* Remote answers to one video ingestion: the state returned by upload_file
\* followed by the states returned by get_file; "RAISE" is an exception.
FinalStates == {"ACTIVE", "FAILED", "RAISE"}
VideoTraces ==
    UNION { { [i \in 1..n |-> IF i < n THEN "PROCESSING" ELSE f] : f \in FinalStates }
            : n \in 1..(MaxPolls + 1) }
VideoEnvs == [write_ok : BOOLEAN, trace : VideoTraces]

\* The remote answers a script execution can observe for the held file:
\* only an accepted video file reaches the remote service.
VideoEnvsFor(f) ==
    IF f # 0 /\ FILES[f].size <= MaxFileSize * BytesPerMB
             /\ IsPrefix(VideoPrefix, FILES[f].type)
    THEN { e \in VideoEnvs : e.write_ok \/ e.trace = <<"RAISE">> }
    ELSE { [write_ok |-> TRUE, trace |-> <<"ACTIVE">>] }

VARIABLES
    api_key,               \* config['api_key']: TRUE iff a non-empty key is set
    chat_history,          \* st.session_state.chat_history
    uploaded_media,        \* st.session_state.uploaded_media
    media_type,            \* st.session_state.media_type
    conversation_started,  \* st.session_state.conversation_started
    assistant,             \* st.session_state.assistant (with its .chat)
    user_input,            \* st.session_state.user_input
    uploaded_file,         \* file held by the st.file_uploader widget (0: none)
    pc,                    \* "idle", or "rerun" after st.rerun()
    chats_created,         \* remote conversations created so far
    last_op,               \* branch taken by the last script execution
    ingest,                \* what process_uploaded_file returned in it
    remote_log,            \* remote calls made by send_message in it
    response,              \* value send_message returned in it
    media_to_send,         \* media the send handler passed in it
    media_delivered,       \* a send of this session carried media and got a reply
    media_sends            \* sends of this session that were handed media

vars == <<api_key, chat_history, uploaded_media, media_type, conversation_started,
          assistant, user_input, uploaded_file, pc, chats_created, last_op, ingest,
          remote_log, response, media_to_send, media_delivered, media_sends>>

\* ------------------------------------------------- process_uploaded_file
\* The poll loop: while the state is PROCESSING, fetch the next state.
\* "HANG" marks a remote that never leaves PROCESSING (not in VideoTraces).
RECURSIVE Poll(_, _)
Poll(state, rest) ==
    IF state = "PROCESSING"
    THEN IF rest = <<>> THEN "HANG"
         ELSE IF Head(rest) = "RAISE" THEN "RAISE"
         ELSE Poll(Head(rest), Tail(rest))
    ELSE state

IngestResult(f, data, type, tfile, outcome) ==
    [file |-> f, data |-> data, type |-> type, tfile |-> tfile, outcome |-> outcome]

NoIngest == IngestResult(0, NoMedia, None, "none", "none")

\* Variant: the size test rejects a file of exactly the limit.
process_uploaded_file_ge(f, max_file_size, env) ==
    IF FILES[f].size >= max_file_size * BytesPerMB
    THEN IngestResult(f, NoMedia, None, "none", "TooLarge")
    ELSE IF IsPrefix(ImagePrefix, FILES[f].type) /\ FILES[f].decodable
    THEN IngestResult(f, [kind |-> "image", file |-> f], "image", "none", "Image")
    ELSE IngestResult(f, NoMedia, None, "none", "UnsupportedType")

\* Returns the pair (data, type) of the code, plus what it told the user
\* (outcome) and what became of the temporary file it created (tfile).
\* The loop leaves on any state but PROCESSING, and nothing reads the state
\* afterwards: the media reference is the handle of the uploaded file.
process_uploaded_file(f, max_file_size, env) ==
    IF FILES[f].size > max_file_size * BytesPerMB
    THEN IngestResult(f, NoMedia, None, "none", "TooLarge")
    ELSE IF IsPrefix(ImagePrefix, FILES[f].type)
    THEN IF FILES[f].decodable
         THEN IngestResult(f, [kind |-> "image", file |-> f], "image", "none", "Image")
         ELSE IngestResult(f, NoMedia, None, "none", "UnsupportedImage")
    ELSE IF IsPrefix(VideoPrefix, FILES[f].type)
    THEN IF ~env.write_ok
         THEN IngestResult(f, NoMedia, None, "exists", "VideoError")
         ELSE IF Head(env.trace) = "RAISE"
         THEN IngestResult(f, NoMedia, None, "exists", "VideoError")
         ELSE LET final == Poll(Head(env.trace), Tail(env.trace))
              IN  IF final = "RAISE"
                  THEN IngestResult(f, NoMedia, None, "exists", "VideoError")
                  ELSE IngestResult(f, [kind |-> "video", file |-> f],
                                    "video", "deleted", "Video")
    ELSE IngestResult(f, NoMedia, None, "none", "UnsupportedType")

\* Lines 312-317: the sidebar block run by every script execution.
UploadBlock(s, file, env) ==
    IF file # 0
    THEN LET r == process_uploaded_file(file, MaxFileSize, env)
         IN  [s |-> IF r.data # NoMedia /\ r.type # None
                    THEN [s EXCEPT !.uploaded_media = r.data, !.media_type = r.type]
                    ELSE s,
              ingest |-> r]
    ELSE [s |-> s, ingest |-> NoIngest]

\* --------------------------------------------------- RepairMateAssistant
NotConfiguredMsg == <<MARK, " API not configured properly. Please check your API key.">>
FailedStartMsg == <<MARK, " Failed to start chat session.">>
ErrorMsg(error_msg) ==
    <<MARK, " Error: ">> \o error_msg \o <<". Please try again or check your API key.">>

Call(op, handle, payload, ok, val) ==
    [op |-> op, handle |-> handle, payload |-> payload, ok |-> ok, val |-> val]

\* start_chat: on success self.chat is a new conversation with history=[];
\* on failure self.chat keeps its value.  n: conversations created so far.
start_chat(self, ok, n) ==
    IF ~self.api_configured
    THEN [self |-> self, log |-> <<>>, created |-> 0]
    ELSE IF ok
    THEN [self |-> [self EXCEPT !.chat = n + 1],
          log |-> << Call("start_chat", n + 1, <<>>, TRUE, <<>>) >>, created |-> 1]
    ELSE [self |-> self,
          log |-> << Call("start_chat", 0, <<>>, FALSE, <<>>) >>, created |-> 0]

\* The session/role heuristic of line 196.
IsSessionError(error_msg) == Contains(error_msg, S400) \/ Contains(Lower(error_msg), SRole)

\* The payload handed to chat.send_message: a list when media is present,
\* the bare string otherwise.
Payload(media_data, message) ==
    IF media_data # NoMedia
    THEN [list |-> TRUE, media |-> media_data, text |-> message]
    ELSE [list |-> FALSE, media |-> NoMedia, text |-> message]

\* Variant: the recovery resend drops the media.
send_message_textretry(self, message, media_data, env, n) ==
    IF ~self.api_configured
    THEN [self |-> self, ret |-> NotConfiguredMsg, log |-> <<>>, created |-> 0]
    ELSE
    LET st1 == IF self.chat = 0 THEN start_chat(self, env.c1, n)
               ELSE [self |-> self, log |-> <<>>, created |-> 0]
    IN  IF st1.self.chat = 0
        THEN [self |-> st1.self, ret |-> FailedStartMsg, log |-> st1.log, created |-> st1.created]
        ELSE
        LET log1 == Append(st1.log, Call("send", st1.self.chat, Payload(media_data, message),
                                         env.o1.ok, env.o1.val))
        IN  IF env.o1.ok
            THEN [self |-> st1.self, ret |-> env.o1.val, log |-> log1, created |-> st1.created]
            ELSE IF IsSessionError(env.o1.val)
            THEN LET st2 == start_chat([st1.self EXCEPT !.chat = 0], env.c2, n + st1.created)
                 IN  IF st2.self.chat # 0
                     THEN [self |-> st2.self,
                           ret |-> IF env.o2.ok THEN env.o2.val ELSE ErrorMsg(env.o1.val),
                           log |-> Append(log1 \o st2.log,
                                          Call("send", st2.self.chat, Payload(NoMedia, message),
                                               env.o2.ok, env.o2.val)),
                           created |-> st1.created + st2.created]
                     ELSE [self |-> st2.self, ret |-> ErrorMsg(env.o1.val),
                           log |-> log1 \o st2.log, created |-> st1.created + st2.created]
            ELSE [self |-> st1.self, ret |-> ErrorMsg(env.o1.val), log |-> log1,
                  created |-> st1.created]

\* Variant: every call starts a new conversation instead of reusing self.chat.
send_message_eager(self, message, media_data, env, n) ==
    IF ~self.api_configured
    THEN [self |-> self, ret |-> NotConfiguredMsg, log |-> <<>>, created |-> 0]
    ELSE
    LET st1 == start_chat(self, TRUE, n)
        log1 == Append(st1.log, Call("send", st1.self.chat, Payload(media_data, message),
                                     env.o1.ok, env.o1.val))
    IN  [self |-> st1.self,
         ret |-> IF env.o1.ok THEN env.o1.val ELSE ErrorMsg(env.o1.val),
         log |-> log1, created |-> st1.created]

\* Variant: the api_configured guard of line 170 is missing.
send_message_noguard(self, message, media_data, env, n) ==
    LET st1 == IF self.chat = 0 THEN start_chat(self, env.c1, n)
               ELSE [self |-> self, log |-> <<>>, created |-> 0]
    IN  IF st1.self.chat = 0
        THEN [self |-> st1.self, ret |-> FailedStartMsg, log |-> st1.log, created |-> st1.created]
        ELSE [self |-> st1.self,
              ret |-> IF env.o1.ok THEN env.o1.val ELSE ErrorMsg(env.o1.val),
              log |-> Append(st1.log, Call("send", st1.self.chat, Payload(media_data, message),
                                           env.o1.ok, env.o1.val)),
              created |-> st1.created]

\* env.c1/env.c2: does the lazy / the recovery start_chat succeed;
\* env.o1/env.o2: outcome of the first / the retried remote send.
send_message(self, message, media_data, env, n) ==
    IF ~self.api_configured
    THEN [self |-> self, ret |-> NotConfiguredMsg, log |-> <<>>, created |-> 0]
    ELSE
    LET st1 == IF self.chat = 0 THEN start_chat(self, env.c1, n)
               ELSE [self |-> self, log |-> <<>>, created |-> 0]
    IN  IF st1.self.chat = 0
        THEN [self |-> st1.self, ret |-> FailedStartMsg, log |-> st1.log, created |-> st1.created]
        ELSE
        LET call1 == Call("send", st1.self.chat, Payload(media_data, message), env.o1.ok, env.o1.val)
            log1 == Append(st1.log, call1)
        IN  IF env.o1.ok
            THEN [self |-> st1.self, ret |-> env.o1.val, log |-> log1, created |-> st1.created]
            ELSE
            LET error_msg == env.o1.val
            IN  IF IsSessionError(error_msg)
                THEN LET st2 == start_chat([st1.self EXCEPT !.chat = 0], env.c2, n + st1.created)
                         call2 == Call("send", st2.self.chat, Payload(media_data, message),
                                       env.o2.ok, env.o2.val)
                     IN  IF st2.self.chat # 0
                         THEN [self |-> st2.self,
                               ret |-> IF env.o2.ok THEN env.o2.val ELSE ErrorMsg(error_msg),
                               log |-> Append(log1 \o st2.log, call2),
                               created |-> st1.created + st2.created]
                         ELSE [self |-> st2.self, ret |-> ErrorMsg(error_msg),
                               log |-> log1 \o st2.log,
                               created |-> st1.created + st2.created]
                ELSE [self |-> st1.self, ret |-> ErrorMsg(error_msg), log |-> log1,
                      created |-> st1.created]

\* ------------------------------------------------------ script handlers
Session ==
    [chat_history |-> chat_history, uploaded_media |-> uploaded_media,
     media_type |-> media_type, conversation_started |-> conversation_started,
     assistant |-> assistant, user_input |-> user_input]

Turn(role, content) == [role |-> role, content |-> content]

\* Lines 260-272: the assistant is built when a key is set and none exists.
InitAssistant(a, key, cfg_ok) ==
    IF key /\ ~a.exists
    THEN [exists |-> TRUE, api_configured |-> cfg_ok, chat |-> 0]
    ELSE a

\* Variant: the remote conversation handle survives the reset.
ResetHandler_keepchat(s) ==
    [s EXCEPT !.chat_history = <<>>,
              !.uploaded_media = NoMedia,
              !.media_type = None,
              !.conversation_started = FALSE,
              !.user_input = <<>>]

\* Lines 332-340.
ResetHandler(s) ==
    [s EXCEPT !.chat_history = <<>>,
              !.uploaded_media = NoMedia,
              !.media_type = None,
              !.conversation_started = FALSE,
              !.user_input = <<>>,
              !.assistant = IF s.assistant.exists
                            THEN [s.assistant EXCEPT !.chat = 0]
                            ELSE s.assistant]

\* Line 444: the wrapper text of the turn that carries media.
MediaPrompt(mtype, text) ==
    <<"I have uploaded a ", mtype,
      " showing an issue. Here's my description of the problem: ">> \o text \o
    <<". Please analyze the ", mtype,
      " and help me fix this issue step by step. Please provide detailed instructions and mention any tools I might need.">>

\* Variant: media is attached whenever a file is held, whatever the flag says.
SendHandler_ignoreflag(s, key, env, n) ==
    IF s.user_input # <<>> /\ key
    THEN IF ~s.assistant.exists
         THEN [s |-> s, branch |-> "send_noassistant", ret |-> <<>>, log |-> <<>>,
               media |-> NoMedia, created |-> 0, rerun |-> FALSE]
         ELSE
         LET attach == s.uploaded_media # NoMedia
             message_content == IF attach THEN MediaPrompt(s.media_type, s.user_input)
                                ELSE s.user_input
             media == IF attach THEN s.uploaded_media ELSE NoMedia
             r == send_message(s.assistant, message_content, media, env, n)
         IN  [s |-> [s EXCEPT !.chat_history =
                                  s.chat_history \o << Turn("user", s.user_input),
                                                       Turn("assistant", r.ret) >>,
                              !.conversation_started = IF attach THEN TRUE ELSE @,
                              !.assistant = r.self,
                              !.user_input = <<>>],
              branch |-> "send", ret |-> r.ret, log |-> r.log, media |-> media,
              created |-> r.created, rerun |-> TRUE]
    ELSE IF ~key
    THEN [s |-> s, branch |-> "send_nokey", ret |-> <<>>, log |-> <<>>,
          media |-> NoMedia, created |-> 0, rerun |-> FALSE]
    ELSE [s |-> s, branch |-> "send_empty", ret |-> <<>>, log |-> <<>>,
          media |-> NoMedia, created |-> 0, rerun |-> FALSE]

\* Variant: conversation_started is never set.
SendHandler_noflag(s, key, env, n) ==
    IF s.user_input # <<>> /\ key
    THEN IF ~s.assistant.exists
         THEN [s |-> s, branch |-> "send_noassistant", ret |-> <<>>, log |-> <<>>,
               media |-> NoMedia, created |-> 0, rerun |-> FALSE]
         ELSE
         LET attach == ~s.conversation_started /\ s.uploaded_media # NoMedia
             message_content == IF attach THEN MediaPrompt(s.media_type, s.user_input)
                                ELSE s.user_input
             media == IF attach THEN s.uploaded_media ELSE NoMedia
             r == send_message(s.assistant, message_content, media, env, n)
         IN  [s |-> [s EXCEPT !.chat_history =
                                  s.chat_history \o << Turn("user", s.user_input),
                                                       Turn("assistant", r.ret) >>,
                              !.conversation_started = @,
                              !.assistant = r.self,
                              !.user_input = <<>>],
              branch |-> "send", ret |-> r.ret, log |-> r.log, media |-> media,
              created |-> r.created, rerun |-> TRUE]
    ELSE IF ~key
    THEN [s |-> s, branch |-> "send_nokey", ret |-> <<>>, log |-> <<>>,
          media |-> NoMedia, created |-> 0, rerun |-> FALSE]
    ELSE [s |-> s, branch |-> "send_empty", ret |-> <<>>, log |-> <<>>,
          media |-> NoMedia, created |-> 0, rerun |-> FALSE]

\* Variant: the user turn stores the text sent to the model, not the raw input.
SendHandler_wrapped(s, key, env, n) ==
    IF s.user_input # <<>> /\ key
    THEN IF ~s.assistant.exists
         THEN [s |-> s, branch |-> "send_noassistant", ret |-> <<>>, log |-> <<>>,
               media |-> NoMedia, created |-> 0, rerun |-> FALSE]
         ELSE
         LET attach == ~s.conversation_started /\ s.uploaded_media # NoMedia
             message_content == IF attach THEN MediaPrompt(s.media_type, s.user_input)
                                ELSE s.user_input
             media == IF attach THEN s.uploaded_media ELSE NoMedia
             r == send_message(s.assistant, message_content, media, env, n)
         IN  [s |-> [s EXCEPT !.chat_history =
                                  s.chat_history \o << Turn("user", message_content),
                                                       Turn("assistant", r.ret) >>,
                              !.conversation_started = IF attach THEN TRUE ELSE @,
                              !.assistant = r.self,
                              !.user_input = <<>>],
              branch |-> "send", ret |-> r.ret, log |-> r.log, media |-> media,
              created |-> r.created, rerun |-> TRUE]
    ELSE IF ~key
    THEN [s |-> s, branch |-> "send_nokey", ret |-> <<>>, log |-> <<>>,
          media |-> NoMedia, created |-> 0, rerun |-> FALSE]
    ELSE [s |-> s, branch |-> "send_empty", ret |-> <<>>, log |-> <<>>,
          media |-> NoMedia, created |-> 0, rerun |-> FALSE]

\* Lines 431-470.  branch names the arm of the if/elif chain that ran.
SendHandler(s, key, env, n) ==
    IF s.user_input # <<>> /\ key
    THEN IF ~s.assistant.exists
         THEN [s |-> s, branch |-> "send_noassistant", ret |-> <<>>, log |-> <<>>,
               media |-> NoMedia, created |-> 0, rerun |-> FALSE]
         ELSE
         LET attach == ~s.conversation_started /\ s.uploaded_media # NoMedia
             message_content == IF attach THEN MediaPrompt(s.media_type, s.user_input)
                                ELSE s.user_input
             media == IF attach THEN s.uploaded_media ELSE NoMedia
             r == send_message(s.assistant, message_content, media, env, n)
         IN  [s |-> [s EXCEPT !.chat_history =
                                  s.chat_history \o << Turn("user", s.user_input),
                                                       Turn("assistant", r.ret) >>,
                              !.conversation_started = IF attach THEN TRUE ELSE @,
                              !.assistant = r.self,
                              !.user_input = <<>>],
              branch |-> "send", ret |-> r.ret, log |-> r.log, media |-> media,
              created |-> r.created, rerun |-> TRUE]
    ELSE IF ~key
    THEN [s |-> s, branch |-> "send_nokey", ret |-> <<>>, log |-> <<>>,
          media |-> NoMedia, created |-> 0, rerun |-> FALSE]
    ELSE [s |-> s, branch |-> "send_empty", ret |-> <<>>, log |-> <<>>,
          media |-> NoMedia, created |-> 0, rerun |-> FALSE]

\* ------------------------------------------------------------ the script
\* Has a remote send of this call log carried media and been answered?
Delivered(log) ==
    \E i \in 1..Len(log) : log[i].op = "send" /\ log[i].ok /\ log[i].payload.media # NoMedia

\* The state a script execution leaves behind.
Commit(s, file, op, ing, r, next_pc) ==
    /\ chat_history' = s.chat_history
    /\ uploaded_media' = s.uploaded_media
    /\ media_type' = s.media_type
    /\ conversation_started' = s.conversation_started
    /\ assistant' = s.assistant
    /\ user_input' = s.user_input
    /\ uploaded_file' = file
    /\ pc' = next_pc
    /\ last_op' = op
    /\ ingest' = ing
    /\ remote_log' = r.log
    /\ response' = r.ret
    /\ media_to_send' = r.media
    /\ chats_created' = chats_created + r.created
    /\ media_delivered' = IF op = "reset" THEN FALSE
                          ELSE media_delivered \/ Delivered(r.log)
    /\ media_sends' = IF op = "reset" THEN 0
                      ELSE IF r.media # NoMedia THEN media_sends + 1 ELSE media_sends
    /\ UNCHANGED api_key

NoSend == [ret |-> <<>>, log |-> <<>>, media |-> NoMedia, created |-> 0]

\* Line 392: the text area's value is copied into the session.
WithText(s, text) == [s EXCEPT !.user_input = text]

Init ==
    /\ api_key \in BOOLEAN
    /\ chat_history = <<>>
    /\ uploaded_media = NoMedia
    /\ media_type = None
    /\ conversation_started = FALSE
    /\ \E cfg_ok \in BOOLEAN : assistant = InitAssistant(NoAssistant, api_key, cfg_ok)
    /\ user_input = <<>>
    /\ uploaded_file = 0
    /\ pc = "idle"
    /\ chats_created = 0
    /\ last_op = "load"
    /\ ingest = NoIngest
    /\ remote_log = <<>>
    /\ response = <<>>
    /\ media_to_send = NoMedia
    /\ media_delivered = FALSE
    /\ media_sends = 0

\* The user puts a file into the uploader: the script runs with no button.
UploadFile ==
    /\ pc = "idle"
    /\ \E f \in FileIds : \E env \in VideoEnvsFor(f) :
          LET u == UploadBlock(Session, f, env)
          IN  Commit(WithText(u.s, user_input), f, "upload", u.ingest, NoSend, "idle")

\* The user removes the file from the uploader.
RemoveFile ==
    /\ pc = "idle"
    /\ uploaded_file # 0
    /\ Commit(Session, 0, "remove", NoIngest, NoSend, "idle")

\* The user edits the text area.
EditText ==
    /\ pc = "idle"
    /\ \E t \in Texts \cup {<<>>}, env \in VideoEnvsFor(uploaded_file) :
          /\ t # user_input
          /\ LET u == UploadBlock(Session, uploaded_file, env)
             IN  Commit(WithText(u.s, t), uploaded_file, "edit", u.ingest, NoSend, "idle")

\* Lines 395-425: an example button, shown while the history is empty.
ClickExample ==
    /\ pc = "idle"
    /\ \E example \in example_issues, env \in VideoEnvsFor(uploaded_file) :
          LET u == UploadBlock(Session, uploaded_file, env)
          IN  /\ u.s.chat_history = <<>>
              /\ Commit(WithText(u.s, example), uploaded_file, "example", u.ingest,
                        NoSend, "rerun")

\* The "Start New Session" button.
ClickReset ==
    /\ pc = "idle"
    /\ \E env \in VideoEnvsFor(uploaded_file) :
          LET u == UploadBlock(Session, uploaded_file, env)
          IN  Commit(ResetHandler(u.s), uploaded_file, "reset", u.ingest, NoSend, "rerun")

\* The "Send Message" button.
ClickSend ==
    /\ pc = "idle"
    /\ Len(chat_history) < 2 * MaxSends
    /\ \E venv \in VideoEnvsFor(uploaded_file), env \in SendEnvs :
          LET u == UploadBlock(Session, uploaded_file, venv)
              h == SendHandler(WithText(u.s, user_input), api_key,
                               env, chats_created)
          IN  /\ chats_created + h.created <= MaxChats
              /\ Commit(h.s, uploaded_file, h.branch, u.ingest,
                        [ret |-> h.ret, log |-> h.log, media |-> h.media, created |-> h.created],
                        IF h.rerun THEN "rerun" ELSE "idle")

\* The execution scheduled by st.rerun(): the script runs with no button.
Rerun ==
    /\ pc = "rerun"
    /\ \E env \in VideoEnvsFor(uploaded_file) :
          LET u == UploadBlock(Session, uploaded_file, env)
          IN  Commit(WithText(u.s, user_input), uploaded_file, "rerun", u.ingest, NoSend, "idle")

Next ==
    \/ UploadFile
    \/ RemoveFile
    \/ EditText
    \/ ClickExample
    \/ ClickReset
    \/ ClickSend
    \/ Rerun

Spec == Init /\ [][Next]_vars

TypeOK ==
    /\ api_key \in BOOLEAN
    /\ conversation_started \in BOOLEAN
    /\ uploaded_file \in 0..Len(FILES)
    /\ pc \in {"idle", "rerun"}
    /\ chats_created \in 0..MaxChats
    /\ assistant.chat \in 0..MaxChats
    /\ Len(chat_history) <= 2 * MaxSends

\* ----------------------------------------------------- claim vocabulary
SendCalls(log) == SelectSeq(log, LAMBDA c : c.op = "send")
StartCalls(log) == SelectSeq(log, LAMBDA c : c.op = "start_chat")

\* Index of the first remote send of a call log (0 when there is none).
FirstSend(log) ==
    IF \E i \in 1..Len(log) : log[i].op = "send"
    THEN CHOOSE i \in 1..Len(log) :
            log[i].op = "send" /\ \A j \in 1..(i - 1) : log[j].op # "send"
    ELSE 0

\* The calls send_message made after its first remote send.
AfterFirstSend(log) ==
    IF FirstSend(log) = 0 THEN <<>> ELSE SubSeq(log, FirstSend(log) + 1, Len(log))

IsErrorString(v) == Len(v) > 0 /\ v[1] = MARK

\* The last script execution ran send_message and its first remote send
\* failed with a session/role-marker error.
SessionFailure ==
    /\ last_op = "send"
    /\ FirstSend(remote_log) # 0
    /\ ~remote_log[FirstSend(remote_log)].ok
    /\ IsSessionError(remote_log[FirstSend(remote_log)].val)

\* The resend of a recovery: made on a conversation created after the
\* failure, with the payload of the failed send; its outcome is returned.
RetriedOnFresh ==
    LET first == remote_log[FirstSend(remote_log)]
        rest == AfterFirstSend(remote_log)
    IN  /\ Len(rest) = 2
        /\ rest[1].op = "start_chat" /\ rest[1].ok /\ rest[1].payload = <<>>
        /\ rest[2].op = "send"
        /\ rest[2].handle = rest[1].handle
        /\ rest[2].handle # first.handle
        /\ rest[2].handle = chats_created
        /\ assistant.chat = rest[2].handle
        /\ rest[2].payload = first.payload
        /\ (rest[2].ok => response = rest[2].val)
        /\ (~rest[2].ok => IsErrorString(response))

\* send_message returned a value and the handler stored it as the last turn.
Returned ==
    /\ response # <<>>
    /\ chat_history # <<>>
    /\ chat_history[Len(chat_history)] = Turn("assistant", response)

\* C1 (as claimed): a send that fails with a session/role-marker error is
\* retried exactly once on a freshly created conversation with the same
\* payload; the retry's text is returned if it succeeds, an error string if
\* it fails, and no exception escapes send_message.
C1_RetriedExactlyOnce ==
    SessionFailure => RetriedOnFresh /\ Returned

\* C1 (amended): a send that fails with a session/role-marker error makes
\* exactly one attempt to create a fresh conversation; if that succeeds the
\* payload is resent exactly once on it and the retry's text (or, if the
\* retry fails, an error string) is returned; if the fresh conversation
\* cannot be created nothing is resent, no conversation handle is left and
\* an error string is returned.  No exception escapes send_message.
C1_RetriedAtMostOnce ==
    SessionFailure =>
        LET rest == AfterFirstSend(remote_log)
        IN  /\ Returned
            /\ Len(rest) >= 1
            /\ rest[1].op = "start_chat"
            /\ (rest[1].ok => RetriedOnFresh)
            /\ (~rest[1].ok => /\ Len(rest) = 1
                               /\ assistant.chat = 0
                               /\ IsErrorString(response))

\* A recovery that resent a media payload and got the reply.
C1_Witness ==
    /\ SessionFailure
    /\ Len(SendCalls(remote_log)) = 2
    /\ remote_log[Len(remote_log)].ok
    /\ remote_log[Len(remote_log)].payload.media # NoMedia
    /\ response = <<"reply">>

\* C2 (as claimed): whenever media_sent (conversation_started) is true, an
\* earlier send of the same session attached media and its remote call
\* succeeded; a send with media whose remote call fails leaves it false.
C2_MediaSentOnlyAfterSuccess ==
    conversation_started => media_delivered

\* C3: once conversation_started is true, a send passes no media to
\* send_message and no remote call of it carries media, whatever has been
\* uploaded since.
C3_NoMediaOnceSent ==
    [][ (last_op' = "send" /\ conversation_started) =>
           /\ media_to_send' = NoMedia
           /\ \A i \in 1..Len(remote_log') :
                 remote_log'[i].op = "send" =>
                    ~remote_log'[i].payload.list /\ remote_log'[i].payload.media = NoMedia ]_vars

\* A plain-text send made while a file is held and after the one send of the
\* session that carried media.
C3_Witness ==
    /\ last_op = "send"
    /\ media_sends = 1
    /\ media_to_send = NoMedia
    /\ uploaded_media # NoMedia
    /\ SendCalls(remote_log) # <<>>

C5_NoKeyAddsErrorTurn ==
    (last_op \in {"send", "send_nokey", "send_noassistant"} /\ ~api_key /\ user_input # <<>>) =>
        /\ Len(chat_history) >= 2
        /\ chat_history[Len(chat_history)].role = "assistant"
        /\ IsPrefix(<<MARK>>, chat_history[Len(chat_history)].content)
        /\ remote_log = <<>>

\* C5 (amended): with no API key a send adds no turn and makes no remote
\* call; the configuration-missing turn belongs to the case of a key that is
\* set while the assistant failed to configure: that send adds a user turn
\* and an assistant turn holding the not-configured message, and makes no
\* remote call.
C5_NotConfiguredTurn ==
    /\ (~api_key => chat_history = <<>> /\ remote_log = <<>> /\ chats_created = 0
                    /\ last_op # "send")
    /\ (last_op = "send" /\ ~assistant.api_configured =>
            /\ Len(chat_history) >= 2
            /\ chat_history[Len(chat_history) - 1].role = "user"
            /\ chat_history[Len(chat_history)] = Turn("assistant", NotConfiguredMsg)
            /\ IsPrefix(<<MARK>>, chat_history[Len(chat_history)].content)
            /\ remote_log = <<>>
            /\ chats_created = 0)

\* A send answered by the not-configured message.
C5_Witness ==
    /\ last_op = "send"
    /\ api_key
    /\ ~assistant.api_configured
    /\ response = NotConfiguredMsg

\* C6: a held file is rejected as too large exactly when its size exceeds
\* max_file_size MB, whatever its type; a rejected file leaves the session
\* media as they were, and the upload that offered it changes nothing of the
\* session.
C6_TooLargeLeavesSession ==
    /\ [](ingest.file # 0 =>
            (ingest.outcome = "TooLarge" <=>
                FILES[ingest.file].size > MaxFileSize * BytesPerMB))
    /\ [][ (ingest'.outcome = "TooLarge" /\ last_op' # "reset") =>
              /\ uploaded_media' = uploaded_media
              /\ media_type' = media_type ]_vars
    /\ [][ (ingest'.outcome = "TooLarge" /\ last_op' = "upload") =>
              UNCHANGED <<chat_history, uploaded_media, media_type,
                          conversation_started, assistant>> ]_vars

\* An oversized upload made while earlier media are held.
C6_Witness ==
    /\ last_op = "upload"
    /\ ingest.outcome = "TooLarge"
    /\ uploaded_media # NoMedia
    /\ uploaded_media.file # uploaded_file

\* C7: an accepted send appends the user turn with the raw input and then
\* the assistant turn with the value send_message returned; nothing but a
\* reset changes the history otherwise, so it alternates user, assistant.
C7_TurnPairs ==
    /\ [](/\ Len(chat_history) % 2 = 0
          /\ \A i \in 1..Len(chat_history) :
                chat_history[i].role = IF i % 2 = 1 THEN "user" ELSE "assistant")
    /\ [][ /\ (last_op' = "send" =>
                 /\ user_input # <<>> /\ api_key /\ assistant.exists
                 /\ chat_history' = chat_history \o
                       << Turn("user", user_input), Turn("assistant", response') >>)
           /\ (last_op' \in {"send_nokey", "send_empty", "send_noassistant"} =>
                 ~(user_input # <<>> /\ api_key /\ assistant.exists))
           /\ (last_op' \notin {"send", "reset"} => chat_history' = chat_history) ]_vars

\* A second send of a session, carrying media, answered by an error string.
C7_Witness ==
    /\ last_op = "send"
    /\ Len(chat_history) = 4
    /\ media_to_send # NoMedia
    /\ IsErrorString(response)

\* C8 (as claimed): every send after the first send of a session is
\* dispatched with no media.
C8_MediaOnlyOnFirstTurn ==
    [][ (last_op' = "send" /\ chat_history # <<>>) => media_to_send' = NoMedia ]_vars

\* C8 (amended): at most one send of a session is handed media: the first
\* send made while a file is held, which need not be the first send.
C8_MediaOnOneTurn ==
    /\ media_sends <= 1
    /\ (conversation_started <=> media_sends = 1)
    /\ (last_op = "send" /\ media_to_send # NoMedia => media_to_send = uploaded_media)

\* A second send that carried media because the first one had none to carry.
C8_Witness ==
    /\ last_op = "send"
    /\ Len(chat_history) = 4
    /\ media_to_send # NoMedia
    /\ media_sends = 1

\* C9 (as claimed): when process_uploaded_file returns, the temporary file
\* it created for a video no longer exists.
C9_TempFileReleased ==
    ingest.tfile # "exists"

\* The send of the last execution found a handle, hit no session/role
\* error, and so must have used that handle only.
ReusedHandle(before, log) ==
    /\ StartCalls(log) = <<>>
    /\ Len(log) = 1
    /\ log[1].op = "send"
    /\ log[1].handle = before

\* C10 parts shared by the claim and its amendment: no conversation exists
\* before the first send of a session; an existing handle is reused by a
\* send that hits no session/role error; an existing handle changes only in
\* a reset or in a recovery.
C10_Reuse ==
    /\ [](chat_history = <<>> => assistant.chat = 0)
    /\ [][ (last_op' = "send" /\ assistant.chat # 0 /\ ~SessionFailure') =>
              ReusedHandle(assistant.chat, remote_log') /\ assistant'.chat = assistant.chat ]_vars
    /\ [][ (assistant.chat # 0 /\ assistant'.chat # assistant.chat) =>
              last_op' = "reset" \/ SessionFailure' ]_vars

\* C10 (as claimed): C10_Reuse, and a send that finds no handle creates a
\* conversation with empty history.
C10_LazyCreate ==
    /\ C10_Reuse
    /\ [][ (last_op' = "send" /\ assistant.chat = 0) =>
              /\ remote_log' # <<>>
              /\ remote_log'[1] = Call("start_chat", chats_created + 1, <<>>, TRUE, <<>>) ]_vars

\* C10 (amended): C10_Reuse, and a send that finds no handle on a configured
\* assistant first tries to create a conversation with empty history and, if
\* that succeeds, sends on it; if it fails, or the assistant is not
\* configured, nothing is sent and no handle exists afterwards.
C10_LazyCreateIfPossible ==
    /\ C10_Reuse
    /\ [][ (last_op' = "send" /\ assistant.chat = 0) =>
              IF assistant.api_configured
              THEN /\ remote_log' # <<>>
                   /\ remote_log'[1].op = "start_chat"
                   /\ remote_log'[1].payload = <<>>
                   /\ IF remote_log'[1].ok
                      THEN /\ remote_log'[1].handle = chats_created + 1
                           /\ Len(remote_log') >= 2
                           /\ remote_log'[2].op = "send"
                           /\ remote_log'[2].handle = chats_created + 1
                      ELSE /\ Len(remote_log') = 1
                           /\ assistant'.chat = 0
                           /\ response' = FailedStartMsg
              ELSE remote_log' = <<>> /\ assistant'.chat = 0 ]_vars

\* A later send of a session answered on the conversation the first created.
C10_Witness ==
    /\ last_op = "send"
    /\ Len(chat_history) = 4
    /\ chats_created = 1
    /\ ReusedHandle(1, remote_log)
    /\ assistant.chat = 1

====
